---------------------------- MODULE Spec2Model ----------------------------
(***************************************************************************)
(* Model of the MRIQC backend (src/fast.py): the breadth-first BIDS root   *)
(* locator, the /run-mriqc handler, /results/latest and /cleanup, all      *)
(* working on one shared upload folder, output folder and result archive.  *)
(*                                                                         *)
(* run_mriqc is a coroutine on a single event loop: between its only       *)
(* suspension point (await bids_zip.read()) and its end it is never        *)
(* interleaved with another coroutine.  cleanup and results_latest are     *)
(* plain functions, which the framework runs in worker threads, so their   *)
(* file-system operations interleave with every step of run_mriqc.         *)
(***************************************************************************)
EXTENDS Integers, Sequences, FiniteSets, TLC

\* ------------------------------------------------------------------ bounds
\* Number of /run-mriqc requests of a behaviour.
NReq == 2
\* Depth of the deepest directory of a tree given to the locator.
MaxDepth == 2
\* Number of directories (the root included) of a tree given to the locator.
MaxDirs == 4

\* ------------------------------------------------------- names and paths
\* A file name is a sequence of characters; a path is the sequence of the
\* names below the search root, so the root is the empty path.
Names == { <<"a">>, <<"b", ".">>, <<".", "h">> }

Root == << >>

\* The None a function returns: no path of the model equals it.
None == << <<"None">> >>

\* The outcome of a call that ended in an exception instead of a return.
Raised == << <<"raised">> >>

\* child.name.startswith(".")
StartsWithDot(name) == Len(name) > 0 /\ name[1] = "."

Depth(path) == Len(path)

\* A directory tree: its directories, those directly holding
\* dataset_description.json, those whose listing raises an error (no read
\* permission) and those whose entries cannot be examined (no search
\* permission: stat of anything in them fails with EACCES).
EmptyTree == [dirs |-> {}, marker |-> {}, unlist |-> {}, nostat |-> {}]

\* Directory listing orders: os.listdir gives no order, so both relative
\* orders of the two names the search can enqueue are drawn.
ListingOrders ==
    { << <<"a">>, <<"b", ".">>, <<".", "h">> >>,
      << <<".", "h">>, <<"b", ".">>, <<"a">> >> }

DefaultListing == << <<"a">>, <<"b", ".">>, <<".", "h">> >>

\* ---------------------------------------------------------------- state
VARIABLES
    upload,      \* UPLOAD_FOLDER: its tree and the saved bids_dataset.zip
    output,      \* OUTPUT_FOLDER: whose runs wrote files, whose log it holds
    result_zip,  \* RESULT_ZIP: what it was built from, and by which request
    loop,        \* the request whose coroutine holds the event loop, or 0
    pc,          \* each request's position in run_mriqc
    req,         \* each request's parameters and local variables
    outcome,     \* each request's response
    last_run,    \* how the run_mriqc request that finished last ended
    cpc,         \* the position of the /cleanup call in progress
    latest,      \* the status GET /results/latest answered in the last step, or 0
    tree,        \* the tree a stand-alone locator call searches
    listing,     \* the order in which directories list their entries
    loc,         \* the locals of the stand-alone locator call
    exists_raises,  \* whether this build's Path.exists() re-raises PermissionError
    response     \* what a stand-alone delivery of the archive on disk returned

vars == <<upload, output, result_zip, loop, pc, req, outcome, last_run,
          cpc, latest, tree, listing, loc, exists_raises, response>>

\* ------------------------------------------------------ find_bids_root
\* (current / "dataset_description.json").exists() raises: Path.exists()
\* swallows ENOENT, ENOTDIR, EBADF and ELOOP only, and in the builds where
\* it does so the PermissionError of the stat leaves it.
ExistsRaises(fs, current, reraise) ==
    current \in fs.dirs /\ current \in fs.nostat /\ reraise

\* (current / "dataset_description.json").exists()
MarkerExists(fs, current) ==
    current \in fs.dirs /\ current \in fs.marker /\ current \notin fs.nostat

\* The loop over current.iterdir() raises: the directory is gone or cannot
\* be listed, or child.is_dir() cannot examine its entries (where is_dir
\* does not raise, it is False for each of them).
IterdirRaises(fs, current) ==
    current \notin fs.dirs \/ current \in fs.unlist \/ current \in fs.nostat

\* The children the loop appends: directories whose name has no leading dot,
\* in listing order.
RECURSIVE ChildrenFrom(_, _, _, _)
ChildrenFrom(fs, current, order, i) ==
    IF i > Len(order) THEN << >>
    ELSE LET child == Append(current, order[i])
             rest  == ChildrenFrom(fs, current, order, i + 1)
         IN IF child \in fs.dirs /\ ~StartsWithDot(order[i])
            THEN <<child>> \o rest
            ELSE rest

\* Children without the test on the leading dot.
RECURSIVE ChildrenWithHiddenFrom(_, _, _, _)
ChildrenWithHiddenFrom(fs, current, order, i) ==
    IF i > Len(order) THEN << >>
    ELSE LET child == Append(current, order[i])
             rest  == ChildrenWithHiddenFrom(fs, current, order, i + 1)
         IN IF child \in fs.dirs THEN <<child>> \o rest ELSE rest

ChildrenWithHidden(fs, current, order) ==
    ChildrenWithHiddenFrom(fs, current, order, 1)

Children(fs, current, order) == ChildrenFrom(fs, current, order, 1)

\* queue = deque([upload_dir]); visited = set().  examined lists the
\* directories in the order the loop took them up.
LocInit ==
    [queue |-> <<Root>>, visited |-> {}, examined |-> << >>,
     result |-> None, done |-> FALSE]

\* LocStep with the children pushed in front of the queue: a depth-first walk.
LocStepDepthFirst(st, fs, order) ==
    IF st.queue = << >>
    THEN [st EXCEPT !.done = TRUE, !.result = None]
    ELSE LET current == Head(st.queue)
             rest    == Tail(st.queue)
         IN IF current \in st.visited
            THEN [st EXCEPT !.queue = rest]
            ELSE IF ExistsRaises(fs, current, exists_raises)
            THEN [st EXCEPT !.queue = rest,
                            !.visited = st.visited \cup {current},
                            !.examined = Append(st.examined, current),
                            !.done = TRUE, !.result = Raised]
            ELSE IF MarkerExists(fs, current)
            THEN [st EXCEPT !.queue = rest,
                            !.visited = st.visited \cup {current},
                            !.examined = Append(st.examined, current),
                            !.done = TRUE, !.result = current]
            ELSE IF IterdirRaises(fs, current)
            THEN [st EXCEPT !.queue = rest,
                            !.visited = st.visited \cup {current},
                            !.examined = Append(st.examined, current)]
            ELSE [st EXCEPT !.queue = Children(fs, current, order) \o rest,
                            !.visited = st.visited \cup {current},
                            !.examined = Append(st.examined, current)]

\* LocStep with a directory whose listing raised put back on the queue
\* and not marked as visited.
LocStepRetry(st, fs, order) ==
    IF st.queue = << >>
    THEN [st EXCEPT !.done = TRUE, !.result = None]
    ELSE LET current == Head(st.queue)
             rest    == Tail(st.queue)
         IN IF current \in st.visited
            THEN [st EXCEPT !.queue = rest]
            ELSE IF ExistsRaises(fs, current, exists_raises)
            THEN [st EXCEPT !.queue = rest,
                            !.visited = st.visited \cup {current},
                            !.examined = Append(st.examined, current),
                            !.done = TRUE, !.result = Raised]
            ELSE IF MarkerExists(fs, current)
            THEN [st EXCEPT !.queue = rest,
                            !.visited = st.visited \cup {current},
                            !.examined = Append(st.examined, current),
                            !.done = TRUE, !.result = current]
            ELSE IF IterdirRaises(fs, current)
            THEN [st EXCEPT !.queue = rest \o <<current>>,
                            !.examined = Append(st.examined, current)]
            ELSE [st EXCEPT !.queue = rest \o Children(fs, current, order),
                            !.visited = st.visited \cup {current},
                            !.examined = Append(st.examined, current)]

\* One iteration of the while loop (or the return None that follows it);
\* an exception that leaves the function ends the call with Raised.
LocStep(st, fs, order) ==
    IF st.queue = << >>
    THEN [st EXCEPT !.done = TRUE, !.result = None]
    ELSE LET current == Head(st.queue)
             rest    == Tail(st.queue)
         IN IF current \in st.visited
            THEN [st EXCEPT !.queue = rest]
            ELSE IF ExistsRaises(fs, current, exists_raises)
            THEN [st EXCEPT !.queue = rest,
                            !.visited = st.visited \cup {current},
                            !.examined = Append(st.examined, current),
                            !.done = TRUE, !.result = Raised]
            ELSE IF MarkerExists(fs, current)
            THEN [st EXCEPT !.queue = rest,
                            !.visited = st.visited \cup {current},
                            !.examined = Append(st.examined, current),
                            !.done = TRUE, !.result = current]
            ELSE IF IterdirRaises(fs, current)
            THEN [st EXCEPT !.queue = rest,
                            !.visited = st.visited \cup {current},
                            !.examined = Append(st.examined, current)]
            ELSE [st EXCEPT !.queue = rest \o Children(fs, current, order),
                            !.visited = st.visited \cup {current},
                            !.examined = Append(st.examined, current)]

RECURSIVE LocRun(_, _, _)
LocRun(st, fs, order) ==
    IF st.done THEN st.result ELSE LocRun(LocStep(st, fs, order), fs, order)

\* The whole function: the directory returned, or None, or Raised.
find_bids_root(fs, order) == LocRun(LocInit, fs, order)

\* ------------------------------------------------- trees for the locator
\* Directory sets of at most k directories, grown one child at a time.
Grow(S) ==
    UNION { { d \cup {Append(p, n)} : p \in { q \in d : Len(q) < MaxDepth },
                                      n \in Names } : d \in S }

RECURSIVE DirSetsUpTo(_)
DirSetsUpTo(k) ==
    IF k <= 1 THEN {{Root}}
    ELSE LET prev == DirSetsUpTo(k - 1)
         IN prev \cup Grow(prev)

\* The trees of at most k directories with any set of marker directories
\* and at most one unlistable directory.
Trees(k) ==
    UNION { { [dirs |-> d, marker |-> m, unlist |-> u, nostat |-> {}] :
                m \in SUBSET d, u \in {{}} \cup { {p} : p \in d } } :
            d \in DirSetsUpTo(k) }

\* The trees of at most k directories with any set of marker directories
\* and one directory, below the root or the root itself, whose entries
\* cannot be examined.
FaultyTrees(k) ==
    UNION { { [dirs |-> d, marker |-> m, unlist |-> {}, nostat |-> {p}] :
                m \in SUBSET d, p \in d } :
            d \in DirSetsUpTo(k) }

\* ------------------------------------------------------------- inputs
Reqs == 1..NReq

\* participant_label values: " 01", "s-" and " ".
Labels == { <<" ", "0", "1">>, <<"s", "-">>, <<" ">> }

Whitespace == {" "}

AlnumChars == {"0", "1", "s"}

RECURSIVE LStrip(_)
LStrip(s) == IF s # << >> /\ Head(s) \in Whitespace THEN LStrip(Tail(s)) ELSE s

RECURSIVE RStrip(_)
RStrip(s) ==
    IF s # << >> /\ s[Len(s)] \in Whitespace
    THEN RStrip(SubSeq(s, 1, Len(s) - 1))
    ELSE s

\* str.strip()
strip(s) == RStrip(LStrip(s))

\* str.isalnum()
isalnum(s) == s # << >> /\ \A i \in 1..Len(s) : s[i] \in AlnumChars

DecimalChars == {"0", "1", "2", "3", "4", "5", "6", "7", "8", "9"}

\* The string is a whole number in decimal digits.
IsNumber(s) == s # << >> /\ \A i \in 1..Len(s) : s[i] \in DecimalChars

\* The form fields of a request: every label with the default n_procs "4"
\* and mem_gb "16", and the label " 01" with n_procs "x".
Forms ==
    { [participant_label |-> l, n_procs |-> <<"4">>, mem_gb |-> <<"1", "6">>] :
        l \in Labels }
    \cup { [participant_label |-> <<" ", "0", "1">>, n_procs |-> <<"x">>,
            mem_gb |-> <<"1", "6">>] }

\* The uploads: no bytes; bytes that are no zip; a zip of a tree a/ with no
\* dataset_description.json; a zip of a tree a/dataset_description.json.
ArchiveIds == {"empty", "badzip", "nomarker", "nested"}

NoZip == "nozip"

\* len(content)
ArchiveSize(a) == IF a = "empty" THEN 0 ELSE 1

\* IsEmptyUpload with the check left out.
IsEmptyUploadNever(content) == FALSE

\* if len(content) == 0
IsEmptyUpload(content) == ArchiveSize(content) = 0

\* zipfile.ZipFile(zip_path) does not raise BadZipFile
IsZip(a) == a \in {"nomarker", "nested"}

ArchiveTree(a) ==
    IF a = "nested"
    THEN [dirs |-> {Root, << <<"a">> >>}, marker |-> {<< <<"a">> >>},
          unlist |-> {}, nostat |-> {}]
    ELSE IF a = "nomarker"
    THEN [dirs |-> {Root, << <<"a">> >>}, marker |-> {}, unlist |-> {},
          nostat |-> {}]
    ELSE EmptyTree

\* The submissions: every form with numbers for n_procs and mem_gb comes
\* with every upload, the form with n_procs "x" with the well-formed
\* dataset.
Submissions ==
    { s \in Forms \X ArchiveIds :
        (IsNumber(s[1].n_procs) /\ IsNumber(s[1].mem_gb)) \/ s[2] = "nested" }

\* --------------------------------------------------------- file system
\* A folder after rmtree, and after mkdir(parents=True, exist_ok=True) on it.
RemovedUpload == [dirs |-> {}, marker |-> {}, zip |-> NoZip]

RemovedOutput == [exists |-> FALSE, files |-> {}, log |-> 0]

AbsentZip == [exists |-> FALSE, files |-> {}, log |-> 0, builder |-> 0, size |-> 0]

MkdirUpload(u) == IF Root \in u.dirs THEN u ELSE [u EXCEPT !.dirs = {Root}]

MkdirOutput(o) == [o EXCEPT !.exists = TRUE]

\* The upload folder as the tree find_bids_root searches: extractall
\* creates its directories with the default permissions.
UploadFs ==
    [dirs |-> upload.dirs, marker |-> upload.marker, unlist |-> {},
     nostat |-> {}]

\* zf.extractall(UPLOAD_FOLDER): directories are created as needed.
Extracted(u, a) ==
    [u EXCEPT !.dirs = u.dirs \cup ArchiveTree(a).dirs,
              !.marker = u.marker \cup ArchiveTree(a).marker]

\* list(OUTPUT_FOLDER.rglob("*"))
ResultFilesEmpty(o) == ~o.exists \/ (o.files = {} /\ o.log = 0)

\* The bytes of a zip file without entries: its end-of-central-directory
\* record.
EmptyZipBytes == 22

\* The size of the archive make_archive writes of folder o: the end record
\* and at least one byte for each entry.
ZipBytes(o) ==
    EmptyZipBytes + Cardinality(o.files) + (IF o.log # 0 THEN 1 ELSE 0)

\* shutil.make_archive(..., root_dir=OUTPUT_FOLDER) by request r.
Archived(o, r) ==
    [exists |-> TRUE, files |-> o.files, log |-> o.log, builder |-> r,
     size |-> ZipBytes(o)]

\* ZipMissingOrEmpty without the size check.
ZipMissingOnly(z) == ~z.exists

\* not RESULT_ZIP.exists() or RESULT_ZIP.stat().st_size == 0
ZipMissingOrEmpty(z) == ~z.exists \/ z.size = 0

\* ------------------------------------------------------------ requests
NoDelivery == [files |-> {}, log |-> 0, builder |-> 0]

ReqInit ==
    [label |-> << >>, n_procs |-> <<"4">>, mem_gb |-> <<"1", "6">>,
     archive |-> "empty", bids_root |-> None,
     proc |-> "none", rc |-> 0, stderr |-> "blank", wrote |-> FALSE,
     logged |-> FALSE, packaged |-> FALSE,
     delivered |-> NoDelivery]

NoOutcome == [kind |-> "none", status |-> 0, detail |-> "none"]

\* Raise with the error recorded and the handler going on.
RaiseAndGoOn(r, status, detail) ==
    /\ outcome' = [outcome EXCEPT ![r] =
                     [kind |-> "error", status |-> status, detail |-> detail]]
    /\ last_run' = "error"
    /\ UNCHANGED <<pc, loop>>

\* raise HTTPException(status_code=status, detail=detail): the handler ends.
Raise(r, status, detail) ==
    /\ pc' = [pc EXCEPT ![r] = "done"]
    /\ outcome' = [outcome EXCEPT ![r] =
                     [kind |-> "error", status |-> status, detail |-> detail]]
    /\ loop' = IF loop = r THEN 0 ELSE loop
    /\ last_run' = "error"

\* RaiseUnexpected without the except clause: the exception leaves the
\* handler and the request gets no outcome.
RaiseUnexpectedEscapes(r) ==
    /\ pc' = [pc EXCEPT ![r] = "crashed"]
    /\ loop' = IF loop = r THEN 0 ELSE loop
    /\ UNCHANGED <<outcome, last_run>>

\* except Exception as e: raise HTTPException(status_code=500, ...)
RaiseUnexpected(r) == Raise(r, 500, "unexpected")

\* The handler goes on to position p.
Goto(r, p) ==
    /\ pc' = [pc EXCEPT ![r] = p]
    /\ UNCHANGED <<outcome, last_run>>

\* ------------------------------------------------- run_mriqc, step by step
\* A POST /run-mriqc arrives with its form fields and its upload.
Submit(r) ==
    /\ pc[r] = "idle"
    /\ IF r = 1 THEN TRUE ELSE pc[r - 1] # "idle"
    /\ \E f \in Forms, a \in ArchiveIds :
         /\ <<f, a>> \in Submissions
         /\ req' = [req EXCEPT ![r].label = f.participant_label,
                               ![r].n_procs = f.n_procs,
                               ![r].mem_gb = f.mem_gb,
                               ![r].archive = a]
    /\ pc' = [pc EXCEPT ![r] = "start"]
    /\ UNCHANGED <<upload, output, result_zip, loop, outcome, last_run,
                   cpc, tree, listing, loc,
                   exists_raises, response>>
    /\ latest' = 0

\* Label check and "fresh workspace", up to the await of bids_zip.read().
Begin(r) ==
    /\ pc[r] = "start"
    /\ loop = 0
    /\ LET label == strip(req[r].label)
       IN /\ req' = [req EXCEPT ![r].label = label]
          /\ IF label = << >> \/ ~isalnum(label)
             THEN /\ Raise(r, 400, "label")
                  /\ UNCHANGED <<upload, output>>
             ELSE /\ upload' = MkdirUpload(RemovedUpload)
                  /\ output' = MkdirOutput(RemovedOutput)
                  /\ Goto(r, "read")
                  /\ UNCHANGED loop
    /\ UNCHANGED <<result_zip, cpc, tree, listing, loc,
                   exists_raises, response>>
    /\ latest' = 0

\* The coroutine resumes with the content read: empty check, then the zip
\* is saved.
Save(r) ==
    /\ pc[r] = "read"
    /\ loop = 0
    /\ LET content == req[r].archive
       IN IF IsEmptyUpload(content)
          THEN /\ Raise(r, 400, "empty")
               /\ UNCHANGED upload
          ELSE IF Root \notin upload.dirs
          THEN /\ RaiseUnexpected(r)
               /\ UNCHANGED upload
          ELSE /\ upload' = [upload EXCEPT !.zip = content]
               /\ Goto(r, "extract")
               /\ loop' = r
    /\ UNCHANGED <<output, result_zip, req, cpc, tree, listing, loc,
                   exists_raises, response>>
    /\ latest' = 0

\* zipfile.ZipFile(zip_path) and extractall.
Extract(r) ==
    /\ pc[r] = "extract"
    /\ loop = r
    /\ IF upload.zip = NoZip
       THEN /\ RaiseUnexpected(r)
            /\ UNCHANGED upload
       ELSE IF ~IsZip(upload.zip)
       THEN /\ Raise(r, 400, "badzip")
            /\ UNCHANGED upload
       ELSE /\ upload' = Extracted(upload, upload.zip)
            /\ Goto(r, "find")
            /\ UNCHANGED loop
    /\ UNCHANGED <<output, result_zip, req, cpc, tree, listing, loc,
                   exists_raises, response>>
    /\ latest' = 0

\* bids_root = find_bids_root(UPLOAD_FOLDER)
Find(r) ==
    /\ pc[r] = "find"
    /\ loop = r
    /\ LET bids_root == find_bids_root(UploadFs, listing)
       IN IF bids_root = Raised
          THEN /\ RaiseUnexpected(r)
               /\ UNCHANGED req
          ELSE IF bids_root = None
          THEN /\ Raise(r, 400, "nobids")
               /\ UNCHANGED req
          ELSE /\ req' = [req EXCEPT ![r].bids_root = bids_root]
               /\ Goto(r, "run")
               /\ UNCHANGED loop
    /\ UNCHANGED <<upload, output, result_zip, cpc, tree, listing, loc,
                   exists_raises, response>>
    /\ latest' = 0

ProcOutcomes == {"launch_error", "timeout", "exited"}

ExitCodes == {0, 1}

\* OnTimeout without the except clause for TimeoutExpired: the general
\* handler answers.
OnTimeoutUncaught(r) == Raise(r, 500, "unexpected")

\* except subprocess.TimeoutExpired
OnTimeout(r) == Raise(r, 500, "timeout")

\* The container's writes into the mounted output folder (the docker daemon
\* creates a missing mount source).
ContainerWrites(o, r, wrote) ==
    [o EXCEPT !.exists = TRUE, !.files = IF wrote THEN o.files \cup {r} ELSE o.files]

\* What the process wrote to stderr: nothing; a short message; more than
\* the tail holds; a message with "got an empty result" in it.
StderrIds == {"blank", "short", "long", "empty_result"}

\* [-2000:]
TailLen == 2000

EmptyResultPhrase ==
    <<"g", "o", "t", " ", "a", "n", " ", "e", "m", "p", "t", "y", " ",
      "r", "e", "s", "u", "l", "t">>

\* result.stderr or ""
StderrText ==
    [id \in StderrIds |->
       IF id = "blank" THEN << >>
       ELSE IF id = "short" THEN <<"b", "a", "d">>
       ELSE IF id = "long"
       THEN [i \in 1..(TailLen + 1) |-> IF i = 1 THEN "h" ELSE "t"]
       ELSE <<"w", ":", " ">> \o EmptyResultPhrase \o <<".">>]

\* phrase in text
Contains(text, phrase) ==
    \E i \in 1..(Len(text) - Len(phrase) + 1) :
        SubSeq(text, i, i + Len(phrase) - 1) = phrase

\* LastChars without the bound: the whole text.
WholeText(text, n) == text

\* text[-n:]
LastChars(text, n) ==
    IF Len(text) <= n THEN text
    ELSE SubSeq(text, Len(text) - n + 1, Len(text))

\* Lines 245-250: the detail of the 500 for a non-zero return code, as the
\* fixed text it starts with and the characters of stderr that follow it.
FailureMessage(text) ==
    LET tail == LastChars(text, TailLen)
    IN IF Contains(text, EmptyResultPhrase)
       THEN [detail |-> "cannot_find_files",
             prefix |-> "MRIQC cannot find files. Expected structure: ",
             tail |-> << >>]
       ELSE [detail |-> "mriqc_failed", prefix |-> "MRIQC failed: ",
             tail |-> tail]

\* The failure message for each stderr the process can leave.
FailureOf == [id \in StderrIds |-> FailureMessage(StderrText[id])]

\* docker run reads --memory={mem_gb}g and --cpus={n_procs} before it
\* creates the container, and exits at once when one of them is no number.
DockerAcceptsLimits(q) == IsNumber(q.n_procs) /\ IsNumber(q.mem_gb)

\* docker pull (its errors are ignored), then
\* subprocess.run(cmd, capture_output=True, text=True, timeout=7200).
\* A process that exits non-zero leaves the message of docker ("short"),
\* a long trace or the complaint of MRIQC that it "got an empty result"
\* for its query of the dataset, after which it wrote no output.
Run(r) ==
    /\ pc[r] = "run"
    /\ loop = r
    /\ \E o \in ProcOutcomes, rc \in ExitCodes, w \in BOOLEAN, e \in StderrIds :
         /\ o # "exited" => rc = 0
         /\ o = "launch_error" => ~w
         /\ ~DockerAcceptsLimits(req[r]) =>
                (o # "timeout" /\ ~w /\ (o = "exited" => rc # 0))
         /\ IF o = "exited" /\ rc # 0
            THEN IF DockerAcceptsLimits(req[r])
                 THEN e \in {"long", "empty_result"}
                 ELSE e = "short"
            ELSE e = "blank"
         /\ e = "empty_result" => ~w
         /\ req' = [req EXCEPT ![r].proc = o, ![r].rc = rc,
                               ![r].stderr = e, ![r].wrote = w]
         /\ output' = IF o = "launch_error" THEN output
                      ELSE ContainerWrites(output, r, w)
         /\ IF o = "launch_error" THEN RaiseUnexpected(r)
            ELSE IF o = "timeout" THEN OnTimeout(r)
            ELSE Goto(r, "log") /\ UNCHANGED loop
    /\ UNCHANGED <<upload, result_zip, cpc, tree, listing, loc,
                   exists_raises, response>>
    /\ latest' = 0

\* debug_mriqc_view(bids_root, ...) raises: with no participant folder it
\* lists bids_root, which is gone.
DebugViewRaises(u, bids_root) == bids_root \notin u.dirs

\* The log is written, then a non-zero return code ends the request.
WriteLog(r) ==
    /\ pc[r] = "log"
    /\ loop = r
    /\ IF ~output.exists
       THEN /\ RaiseUnexpected(r)
            /\ UNCHANGED <<output, req>>
       ELSE /\ output' = [output EXCEPT !.log = r]
            /\ req' = [req EXCEPT ![r].logged = TRUE]
            /\ IF req[r].rc # 0
               THEN LET msg == FailureOf[req[r].stderr]
                    IN IF /\ msg.detail = "cannot_find_files"
                          /\ DebugViewRaises(upload, req[r].bids_root)
                       THEN RaiseUnexpected(r)
                       ELSE Raise(r, 500, msg.detail)
               ELSE Goto(r, "verify") /\ UNCHANGED loop
    /\ UNCHANGED <<upload, result_zip, cpc, tree, listing, loc,
                   exists_raises, response>>
    /\ latest' = 0

\* "Verify output exists"
Verify(r) ==
    /\ pc[r] = "verify"
    /\ loop = r
    /\ IF ResultFilesEmpty(output)
       THEN Raise(r, 500, "no_output")
       ELSE Goto(r, "package") /\ UNCHANGED loop
    /\ UNCHANGED <<upload, output, result_zip, req, cpc, tree, listing, loc,
                   exists_raises, response>>
    /\ latest' = 0

\* if RESULT_ZIP.exists(): RESULT_ZIP.unlink(), then shutil.make_archive:
\* with the output folder gone it raises or writes an archive without
\* entries, depending on the version of the library.
Package(r) ==
    /\ pc[r] = "package"
    /\ loop = r
    /\ \E raises \in BOOLEAN :
         IF ~output.exists /\ raises
         THEN /\ result_zip' = AbsentZip
              /\ RaiseUnexpected(r)
              /\ UNCHANGED req
         ELSE /\ result_zip' = Archived(IF output.exists THEN output ELSE RemovedOutput, r)
              /\ req' = [req EXCEPT ![r].packaged = TRUE]
              /\ Goto(r, "respond")
              /\ UNCHANGED loop
    /\ UNCHANGED <<upload, output, cpc, tree, listing, loc,
                   exists_raises, response>>
    /\ latest' = 0

\* return FileResponse(...) or StreamingResponse(...): the handler ends.
Succeed(r) ==
    /\ pc' = [pc EXCEPT ![r] = "done"]
    /\ outcome' = [outcome EXCEPT ![r] =
                     [kind |-> "success", status |-> 200, detail |-> "ok"]]
    /\ loop' = 0
    /\ last_run' = "success"

\* The archive is checked and its size taken, then the response is returned.
Respond(r) ==
    /\ pc[r] = "respond"
    /\ loop = r
    /\ IF ZipMissingOrEmpty(result_zip)
       THEN /\ Raise(r, 500, "package_failed")
            /\ UNCHANGED req
       ELSE /\ Succeed(r)
            /\ req' = [req EXCEPT ![r].delivered =
                         [files |-> result_zip.files, log |-> result_zip.log,
                          builder |-> result_zip.builder]]
    /\ UNCHANGED <<upload, output, result_zip, cpc, tree, listing, loc,
                   exists_raises, response>>
    /\ latest' = 0

\* The steps of request r's handler.
Step(r) ==
    \/ Begin(r) \/ Save(r) \/ Extract(r) \/ Find(r) \/ Run(r)
    \/ WriteLog(r) \/ Verify(r) \/ Package(r) \/ Respond(r)

\* ---------------------------------------------------------------- cleanup
\* cleanup in two steps: its three removals, then its two mkdir; a request's
\* steps fall before, between or after them.
CleanupStep(from, to, u, o, z) ==
    /\ cpc = from
    /\ cpc' = to
    /\ upload' = u
    /\ output' = o
    /\ result_zip' = z
    /\ UNCHANGED <<loop, pc, req, outcome, last_run, tree, listing, loc,
                   exists_raises, response>>
    /\ latest' = 0

\* rmtree of both folders and the unlink of the archive.
CleanupRemove == CleanupStep("idle", "mkdirs", RemovedUpload, RemovedOutput, AbsentZip)

\* Both mkdir(parents=True, exist_ok=True), then {"status": "ok"}.
CleanupMkdirs ==
    CleanupStep("mkdirs", "idle", MkdirUpload(upload), MkdirOutput(output), result_zip)

\* --------------------------------------------------------- results_latest
\* The status GET /results/latest answers with, given the archive.
LatestStatus(z) == IF ZipMissingOrEmpty(z) THEN 404 ELSE 200

results_latest ==
    /\ latest' = LatestStatus(result_zip)
    /\ UNCHANGED <<upload, output, result_zip, loop, pc, req, outcome, last_run,
                   cpc, tree, listing, loc,
                   exists_raises, response>>

\* ------------------------------------------------ delivery of the archive
\* 1024 * 1024
MiB == 1024 * 1024

LARGE_FILE_THRESHOLD_MB == 150

\* size_mb = st_size / (1024 * 1024): a float division by a power of two,
\* exact for every file size, so size_mb is the whole number of MiB and
\* the bytes beyond it.
SizeMb(size) == [whole |-> size \div MiB, rest |-> size % MiB]

\* AtMostThreshold with < in the place of <=.
UnderThreshold(size_mb) == size_mb.whole < LARGE_FILE_THRESHOLD_MB

\* size_mb <= LARGE_FILE_THRESHOLD_MB
AtMostThreshold(size_mb) ==
    \/ size_mb.whole < LARGE_FILE_THRESHOLD_MB
    \/ size_mb.whole = LARGE_FILE_THRESHOLD_MB /\ size_mb.rest = 0

Digits == <<"0", "1", "2", "3", "4", "5", "6", "7", "8", "9">>

\* str(n) of a non-negative int: its decimal digits.
RECURSIVE str(_)
str(n) ==
    IF n < 10 THEN <<Digits[n + 1]>>
    ELSE str(n \div 10) \o <<Digits[(n % 10) + 1]>>

\* The headers dict without a Content-Length entry.
NoHeader == << >>

NoResponse == [kind |-> "none", status |-> 0, content_length |-> NoHeader]

\* The return of lines 282-295 for an archive of the given size.
ResponseFor(size) ==
    IF AtMostThreshold(SizeMb(size))
    THEN [kind |-> "FileResponse", status |-> 200, content_length |-> NoHeader]
    ELSE [kind |-> "StreamingResponse", status |-> 200,
          content_length |-> str(size)]

\* Lines 268-295 on the archive on disk: the check of the archive, then the
\* choice of the response by size.
DeliverArchive ==
    /\ response' = IF ZipMissingOrEmpty(result_zip)
                   THEN [kind |-> "HTTPException", status |-> 500,
                         content_length |-> NoHeader]
                   ELSE ResponseFor(result_zip.size)
    /\ latest' = 0
    /\ UNCHANGED <<upload, output, result_zip, loop, pc, req, outcome, last_run,
                   cpc, tree, listing, loc, exists_raises>>

\* Archive sizes around zero, around whole MiB and around the threshold.
ArchiveSizes ==
    {0} \cup { k * MiB + d : k \in {0, 1, 2, 148, 149, 150, 151, 152},
                             d \in {0, 1, MiB \div 2, MiB - 1} }

\* The archives a delivery can find on disk: none, or one of any size (a
\* zip being written by make_archive exists with size zero at first).
ArchivesOnDisk ==
    {AbsentZip} \cup
    { [exists |-> TRUE, files |-> {}, log |-> 0, builder |-> 0, size |-> sz] :
        sz \in ArchiveSizes }

\* ------------------------------------------------------- specifications
Init ==
    /\ upload = MkdirUpload(RemovedUpload)
    /\ output = MkdirOutput(RemovedOutput)
    /\ result_zip = AbsentZip
    /\ loop = 0
    /\ pc = [r \in Reqs |-> "idle"]
    /\ req = [r \in Reqs |-> ReqInit]
    /\ outcome = [r \in Reqs |-> NoOutcome]
    /\ last_run = "none"
    /\ cpc = "idle"
    /\ latest = 0
    /\ tree = EmptyTree
    /\ listing = DefaultListing
    /\ loc = LocInit
    /\ exists_raises = FALSE
    /\ response = NoResponse

Next ==
    \/ \E r \in Reqs : Submit(r)
    \/ \E r \in Reqs : Begin(r)
    \/ \E r \in Reqs : Save(r)
    \/ \E r \in Reqs : Extract(r)
    \/ \E r \in Reqs : Find(r)
    \/ \E r \in Reqs : Run(r)
    \/ \E r \in Reqs : WriteLog(r)
    \/ \E r \in Reqs : Verify(r)
    \/ \E r \in Reqs : Package(r)
    \/ \E r \in Reqs : Respond(r)
    \/ CleanupRemove
    \/ CleanupMkdirs
    \/ results_latest

Spec == Init /\ [][Next]_vars

\* The server runs every handler it has started: a request's next step is
\* taken once the event loop is free.
FairSpec == Spec /\ \A r \in Reqs : WF_vars(Step(r))

\* A stand-alone call of find_bids_root on a drawn tree, one loop iteration
\* at a time.
InitLocator ==
    /\ upload = MkdirUpload(RemovedUpload)
    /\ output = MkdirOutput(RemovedOutput)
    /\ result_zip = AbsentZip
    /\ loop = 0
    /\ pc = [r \in Reqs |-> "idle"]
    /\ req = [r \in Reqs |-> ReqInit]
    /\ outcome = [r \in Reqs |-> NoOutcome]
    /\ last_run = "none"
    /\ cpc = "idle"
    /\ latest = 0
    /\ tree \in Trees(MaxDirs)
    /\ listing \in ListingOrders
    /\ loc = LocInit
    /\ exists_raises = FALSE
    /\ response = NoResponse

LocAdvance ==
    /\ ~loc.done
    /\ loc' = LocStep(loc, tree, listing)
    /\ UNCHANGED <<upload, output, result_zip, loop, pc, req, outcome, last_run,
                   cpc, latest, tree, listing, exists_raises, response>>

NextLocator == LocAdvance

SpecLocator == InitLocator /\ [][NextLocator]_vars

\* A stand-alone call of find_bids_root on a tree with a directory that
\* cannot be examined or listed, in a build of either kind.
InitLocatorFaults ==
    /\ upload = MkdirUpload(RemovedUpload)
    /\ output = MkdirOutput(RemovedOutput)
    /\ result_zip = AbsentZip
    /\ loop = 0
    /\ pc = [r \in Reqs |-> "idle"]
    /\ req = [r \in Reqs |-> ReqInit]
    /\ outcome = [r \in Reqs |-> NoOutcome]
    /\ last_run = "none"
    /\ cpc = "idle"
    /\ latest = 0
    /\ tree \in Trees(MaxDirs) \cup FaultyTrees(MaxDirs)
    /\ listing \in ListingOrders
    /\ loc = LocInit
    /\ exists_raises \in BOOLEAN
    /\ response = NoResponse

SpecLocatorFaults == InitLocatorFaults /\ [][NextLocator]_vars

\* The call runs on: the loop takes its next iteration.
FairSpecLocatorFaults == SpecLocatorFaults /\ WF_vars(LocAdvance)

\* Stand-alone deliveries of an archive found on disk, after a last run of
\* any outcome: GET /results/latest and the tail of run_mriqc.
InitDelivery ==
    /\ upload = MkdirUpload(RemovedUpload)
    /\ output = MkdirOutput(RemovedOutput)
    /\ result_zip \in ArchivesOnDisk
    /\ loop = 0
    /\ pc = [r \in Reqs |-> "idle"]
    /\ req = [r \in Reqs |-> ReqInit]
    /\ outcome = [r \in Reqs |-> NoOutcome]
    /\ last_run \in {"none", "success", "error"}
    /\ cpc = "idle"
    /\ latest = 0
    /\ tree = EmptyTree
    /\ listing = DefaultListing
    /\ loc = LocInit
    /\ exists_raises = FALSE
    /\ response = NoResponse

NextDelivery == results_latest \/ DeliverArchive

SpecDelivery == InitDelivery /\ [][NextDelivery]_vars


\* ---------------------------------------------------------------- claims
\* The positions of the handler by phase of the request.
ExtractingPcs == {"read", "extract", "find"}

RunningPcs == {"run", "log", "verify", "package", "respond"}

PhaseRank(p) ==
    IF p = "idle" THEN 0
    ELSE IF p = "start" THEN 1
    ELSE IF p \in ExtractingPcs THEN 2
    ELSE IF p \in RunningPcs THEN 3
    ELSE 4

\* No component of the path below the search root has a leading dot.
Visible(path) == \A i \in 1..Len(path) : ~StartsWithDot(path[i])

\* The directory and every directory above it can be listed.
Readable(t, path) == \A k \in 0..Len(path) : SubSeq(path, 1, k) \notin t.unlist

\* The readable, non-hidden-path directories that directly hold the marker.
Qualifying(t) ==
    { d \in t.dirs : d \in t.marker /\ Visible(d) /\ Readable(t, d) }

\* C1: when some readable directory on a path without hidden names holds the
\* marker, find_bids_root returns a marker directory that is no deeper than
\* any such directory.
C1_ShallowestMarker ==
    (loc.done /\ Qualifying(tree) # {}) =>
        /\ loc.result # None
        /\ loc.result \in tree.marker
        /\ \A q \in Qualifying(tree) : Depth(loc.result) <= Depth(q)

\* A finished search over a tree with qualifying directories at two depths,
\* the deeper one in the directory listed first.
C1_Witness ==
    /\ loc.done
    /\ \E q \in Qualifying(tree) :
         /\ Depth(q) > Depth(loc.result)
         /\ loc.result # Root
         /\ q[1] = listing[1]
         /\ loc.result[1] # q[1]


\* The request's upload is a zip whose tree holds no marker anywhere.
NoMarkerUpload(r) ==
    /\ pc[r] # "idle"
    /\ IsZip(req[r].archive)
    /\ ArchiveTree(req[r].archive).marker = {}

\* C2: for a request whose archive holds no dataset_description.json,
\* find_bids_root returns None and the request never reaches the external
\* process; once ended it has failed, with the 400 "No valid BIDS dataset
\* found" if it got as far as the root discovery.
C2_NoMarkerNeverRuns ==
    \A r \in Reqs : NoMarkerUpload(r) =>
        /\ pc[r] = "find" => find_bids_root(UploadFs, listing) = None
        /\ pc[r] \notin RunningPcs
        /\ req[r].proc = "none"
        /\ req[r].bids_root = None
        /\ pc[r] = "done" =>
               /\ outcome[r].kind = "error"
               /\ outcome[r].detail \in {"nobids", "label", "unexpected"}
               /\ outcome[r].detail = "nobids" => outcome[r].status = 400

\* The request's upload has zero bytes.
ZeroByteUpload(r) == pc[r] # "idle" /\ ArchiveSize(req[r].archive) = 0

ExitZeroNoOutput(r) ==
    req[r].proc = "exited" /\ req[r].rc = 0 /\ ~req[r].wrote

\* C4: a request whose process exited 0 without writing output never goes
\* on to packaging, never succeeds and, once ended after its log was
\* written, has failed with "no output files were generated".
C4_ExitZeroNoOutputFails ==
    \A r \in Reqs : ExitZeroNoOutput(r) =>
        /\ pc[r] \notin {"package", "respond"}
        /\ ~req[r].packaged
        /\ pc[r] = "done" =>
               /\ outcome[r].kind = "error"
               /\ req[r].logged => outcome[r].detail = "no_output"

\* C5: a request whose process ran into the timeout has ended, in failure,
\* with the timeout error; it wrote no log and packaged nothing, and the
\* archive on disk is not one it built.
C5_TimeoutFails ==
    \A r \in Reqs : req[r].proc = "timeout" =>
        /\ pc[r] = "done"
        /\ outcome[r] = [kind |-> "error", status |-> 500, detail |-> "timeout"]
        /\ ~req[r].logged
        /\ ~req[r].packaged
        /\ result_zip.builder # r

\* A timed-out request left partial output in the output folder while an
\* archive of an earlier request is on disk.
C5_Witness ==
    \E r \in Reqs :
        /\ req[r].proc = "timeout"
        /\ req[r].wrote
        /\ r \in output.files
        /\ result_zip.exists

\* C6: every step moves each request forward by at most one phase at a
\* time (submitted, extracting, running, ended); a request has an outcome,
\* success or error, exactly when it has ended, success comes only out of
\* the running phase, and an ended request never changes again.
C6_ForwardAndTerminal ==
    [][\A r \in Reqs :
         /\ PhaseRank(pc'[r]) >= PhaseRank(pc[r])
         /\ pc'[r] \in ExtractingPcs => pc[r] \in ExtractingPcs \cup {"start"}
         /\ pc'[r] \in RunningPcs => pc[r] \in RunningPcs \cup ExtractingPcs
         /\ (outcome'[r].kind # "none") <=> (pc'[r] = "done")
         /\ outcome'[r].kind \in {"none", "success", "error"}
         /\ (outcome'[r].kind = "success" /\ outcome[r].kind = "none")
                => pc[r] \in RunningPcs
         /\ pc[r] = "done" =>
                /\ pc'[r] = "done"
                /\ outcome'[r] = outcome[r]
                /\ req'[r] = req[r]]_vars

\* One request has ended in success, another in failure after its process
\* ran, and cleanup is at work.
C6_Witness ==
    \E r, q \in Reqs :
        /\ pc[r] = "done" /\ outcome[r].kind = "success"
        /\ pc[q] = "done" /\ outcome[q].kind = "error" /\ req[q].proc # "none"
        /\ cpc # "idle"

\* C7: when the run_mriqc request that finished last has failed and no
\* request is in flight, GET /results/latest answers 404.
C7_FailedRunHasNoArchive ==
    (/\ latest # 0
     /\ last_run = "error"
     /\ \A r \in Reqs : pc[r] \in {"idle", "done"}) => latest = 404

\* C8: a request that reported success delivered an archive it built itself,
\* holding its own run log and the output its run wrote.
C8_SuccessHasOwnArchive ==
    \A r \in Reqs : outcome[r].kind = "success" =>
        /\ req[r].delivered.builder = r
        /\ req[r].delivered.log = r
        /\ req[r].wrote => r \in req[r].delivered.files

\* C9: while a request is in flight its saved upload, its extracted tree,
\* its output and its log are on disk as it left them, with nothing of
\* another request among them, and the archive it delivers holds its own
\* run's output only.
C9_WorkspaceExclusive ==
    \A r \in Reqs :
        /\ pc[r] = "extract" => upload.zip = req[r].archive
        /\ pc[r] = "find" =>
               /\ upload.dirs = ArchiveTree(req[r].archive).dirs
               /\ upload.marker = ArchiveTree(req[r].archive).marker
        /\ pc[r] \in {"log", "verify", "package", "respond"} =>
               /\ output.exists
               /\ output.files = IF req[r].wrote THEN {r} ELSE {}
        /\ pc[r] \in {"verify", "package", "respond"} => output.log = r
        /\ pc[r] = "respond" => result_zip.exists /\ result_zip.builder = r
        /\ outcome[r].kind = "success" =>
               /\ req[r].delivered.files \subseteq {r}
               /\ req[r].delivered.log = r

\* C10: every request the server has received ends, with a success or an
\* error response.
C10_EveryRequestEnds ==
    \A r \in Reqs :
        (pc[r] = "start") ~>
            (pc[r] = "done" /\ outcome[r].kind \in {"success", "error"})

\* A request has ended with the 500 the general handler makes of an
\* exception: its process could not be launched.
C10_Witness ==
    \E r \in Reqs :
        /\ pc[r] = "done"
        /\ req[r].proc = "launch_error"
        /\ outcome[r] = [kind |-> "error", status |-> 500, detail |-> "unexpected"]

\* The external process of request r was started: it exited or was killed
\* at the timeout.
Invoked(r) == req[r].proc \in {"exited", "timeout"}

\* C11: a request that started the external process has, by the time it
\* ends, written the run log (command, stdout and stderr), whether the
\* process succeeded, failed or ran into the timeout.
C11_LogWhateverOutcome ==
    \A r \in Reqs : (Invoked(r) /\ pc[r] = "done") => req[r].logged

\* C12: GET /results/latest answers 404 when the archive is missing or has
\* size zero and 200 when it exists with a positive size, whatever the
\* outcome of the last run.
C12_LatestByArchive ==
    latest # 0 =>
        /\ (~result_zip.exists \/ result_zip.size = 0) => latest = 404
        /\ (result_zip.exists /\ result_zip.size > 0) => latest = 200

\* After a run that reported success the archive on disk has size zero and
\* GET /results/latest has answered 404.
C12_Witness ==
    /\ last_run = "success"
    /\ result_zip.exists
    /\ result_zip.size = 0
    /\ latest = 404

\* The value of a decimal digit, and of a string of decimal digits as the
\* receiver of a header reads it.
DigitValue(c) == CHOOSE d \in 0..9 : Digits[d + 1] = c

RECURSIVE ParseInt(_)
ParseInt(s) ==
    IF s = << >> THEN 0
    ELSE 10 * ParseInt(SubSeq(s, 1, Len(s) - 1)) + DigitValue(s[Len(s)])

\* C14: an archive of at most 150 * 1024 * 1024 bytes is returned as a
\* FileResponse, a larger one as a StreamingResponse whose Content-Length
\* header reads as the size of the archive in bytes.
C14_DeliveryBySize ==
    (response.kind # "none" /\ result_zip.exists /\ result_zip.size > 0) =>
        /\ result_zip.size <= 150 * 1024 * 1024 =>
               response.kind = "FileResponse"
        /\ result_zip.size > 150 * 1024 * 1024 =>
               /\ response.kind = "StreamingResponse"
               /\ response.content_length # NoHeader
               /\ ParseInt(response.content_length) = result_zip.size

\* An archive one byte over the threshold has been returned as a stream.
C14_Witness ==
    /\ result_zip.size = 150 * 1024 * 1024 + 1
    /\ response.kind = "StreamingResponse"
    /\ response.content_length =
           <<"1", "5", "7", "2", "8", "6", "4", "0", "1">>

\* C13: when POST /cleanup completes, the upload folder and the output
\* folder exist and are empty, no result archive exists and GET
\* /results/latest answers 404.
C13_CleanAfterCleanup ==
    [][(cpc = "mkdirs" /\ cpc' = "idle") =>
         /\ upload' = MkdirUpload(RemovedUpload)
         /\ output' = MkdirOutput(RemovedOutput)
         /\ ~result_zip'.exists
         /\ LatestStatus(result_zip') = 404]_vars

\* A parameter of the request is invalid: its label is empty or not
\* alphanumeric once stripped, or its CPU count or memory size is no number.
InvalidParams(r) ==
    /\ pc[r] # "idle"
    /\ \/ ~isalnum(strip(req[r].label))
       \/ ~IsNumber(req[r].n_procs)
       \/ ~IsNumber(req[r].mem_gb)

\* C15: a request with an invalid parameter never reaches the external
\* process and, once ended, has been rejected: with a 400, unless an
\* operating-system error ended it before.
C15_InvalidParamsRejected ==
    \A r \in Reqs : InvalidParams(r) =>
        /\ pc[r] \notin RunningPcs
        /\ req[r].proc = "none"
        /\ pc[r] = "done" =>
               /\ outcome[r].kind = "error"
               /\ outcome[r].detail # "unexpected" => outcome[r].status = 400

\* The external process of request r exited with a non-zero code.
ExitNonZero(r) == req[r].proc = "exited" /\ req[r].rc # 0

\* Text t is the suffix of text s of length min(Len(s), 2000).
IsBoundedSuffix(t, s) ==
    /\ Len(t) <= 2000
    /\ Len(t) = IF Len(s) < 2000 THEN Len(s) ELSE 2000
    /\ \A i \in 1..Len(t) : t[i] = s[Len(s) - Len(t) + i]

\* For each stderr: the characters after "MRIQC failed: " are its bounded
\* suffix.
TailIsBoundedSuffix ==
    [id \in StderrIds |-> IsBoundedSuffix(FailureOf[id].tail, StderrText[id])]

\* For each stderr: it has "got an empty result" in it.
HasEmptyResult ==
    [id \in StderrIds |-> Contains(StderrText[id], EmptyResultPhrase)]

\* C16 as stated: a request whose process exited non-zero packages nothing
\* and, once ended, has failed with the error that carries the bounded tail
\* of stderr.
C16_TailAsStated ==
    \A r \in Reqs : ExitNonZero(r) =>
        /\ pc[r] \in {"log", "done"}
        /\ ~req[r].packaged
        /\ pc[r] = "done" =>
               /\ outcome[r].kind = "error"
               /\ outcome[r].detail = "mriqc_failed"
               /\ TailIsBoundedSuffix[req[r].stderr]

\* C16 as amended: a request whose process exited non-zero packages nothing
\* and, once ended, has failed with a 500: "MRIQC failed: " and the last
\* min(length, 2000) characters of stderr when stderr has no "got an empty
\* result" in it; the fixed "MRIQC cannot find files" text, with nothing of
\* stderr, when it has; the "Unexpected error" 500 when the log could not
\* be written or the dataset folder was gone.
C16_FailureWithBoundedError ==
    \A r \in Reqs : ExitNonZero(r) =>
        /\ pc[r] \in {"log", "done"}
        /\ ~req[r].packaged
        /\ result_zip.builder # r
        /\ pc[r] = "done" =>
               /\ outcome[r].kind = "error"
               /\ outcome[r].status = 500
               /\ outcome[r].detail \in
                      {"mriqc_failed", "cannot_find_files", "unexpected"}
               /\ outcome[r].detail = "mriqc_failed" =>
                      /\ ~HasEmptyResult[req[r].stderr]
                      /\ FailureOf[req[r].stderr].prefix = "MRIQC failed: "
                      /\ TailIsBoundedSuffix[req[r].stderr]
               /\ outcome[r].detail = "cannot_find_files" =>
                      /\ HasEmptyResult[req[r].stderr]
                      /\ FailureOf[req[r].stderr].tail = << >>
               /\ outcome[r].detail = "unexpected" =>
                      \/ ~req[r].logged
                      \/ HasEmptyResult[req[r].stderr]

\* A request whose process left more than 2000 characters on stderr has
\* failed with "MRIQC failed: " and the last 2000 of them.
C16_Witness ==
    \E r \in Reqs :
        /\ ExitNonZero(r)
        /\ pc[r] = "done"
        /\ req[r].stderr = "long"
        /\ outcome[r].detail = "mriqc_failed"
        /\ Len(StderrText["long"]) > 2000
        /\ Len(FailureOf["long"].tail) = 2000

\* The directories of the tree that cannot be listed or examined.
Unreadable(t) == t.unlist \cup t.nostat

\* The marker directories the search can reach and look into: on a path
\* without hidden names, below readable directories only, and themselves
\* open to examination.
ReachableMarkers(t) ==
    { d \in t.dirs :
        /\ d \in t.marker
        /\ Visible(d)
        /\ d \notin t.nostat
        /\ \A k \in 0..(Len(d) - 1) : SubSeq(d, 1, k) \notin Unreadable(t) }

\* C17: on a tree with directories that cannot be examined or listed the
\* search ends without an exception, with the shallowest marker directory
\* reachable through readable directories, or with None when there is none.
C17_UnreadableSkipped ==
    loc.done =>
        /\ loc.result # Raised
        /\ IF ReachableMarkers(tree) = {}
           THEN loc.result = None
           ELSE /\ loc.result \in ReachableMarkers(tree)
                /\ \A q \in ReachableMarkers(tree) :
                       Depth(loc.result) <= Depth(q)

\* C18: the search never takes up a directory below a dot-prefixed name:
\* every queued, visited or returned directory has no dot-prefixed name on
\* its path below the root, and with markers under hidden directories only
\* the result is None.
C18_HiddenNeverEntered ==
    /\ \A i \in 1..Len(loc.queue) : Visible(loc.queue[i])
    /\ \A d \in loc.visited : Visible(d)
    /\ (loc.done /\ loc.result # None) => Visible(loc.result)
    /\ (loc.done /\ \A d \in tree.marker : ~Visible(d)) => loc.result = None

\* A finished search returned None on a tree whose marker lies in a
\* directory of a plain name below a hidden directory.
C18_Witness ==
    /\ loc.done
    /\ loc.result = None
    /\ \E d \in tree.marker :
         Len(d) = 2 /\ StartsWithDot(d[1]) /\ ~StartsWithDot(d[2])

\* No directory occurs twice in the sequence.
NoRepeat(seq) == \A i, j \in 1..Len(seq) : seq[i] = seq[j] => i = j

\* The depths of the directories of the sequence never decrease.
DepthOrdered(seq) ==
    \A i, j \in 1..Len(seq) : i < j => Depth(seq[i]) <= Depth(seq[j])

\* C19: the search ends, and at every point the directories it has taken
\* up so far are directories of the tree, each taken up once, in
\* non-decreasing order of depth.
C19_TerminatesInDepthOrder ==
    /\ <>loc.done
    /\ [](/\ NoRepeat(loc.examined)
          /\ DepthOrdered(loc.examined)
          /\ \A i \in 1..Len(loc.examined) : loc.examined[i] \in tree.dirs)

\* A finished search found nothing after taking up four directories, down
\* to depth 2, one of which could not be listed or examined.
C19_Witness ==
    /\ loc.done
    /\ loc.result = None
    /\ Len(loc.examined) >= 4
    /\ \E i \in 1..Len(loc.examined) :
         /\ Depth(loc.examined[i]) = 2
         /\ loc.examined[i] \in Unreadable(tree)

=============================================================================
